---- MODULE Spec2Model ----
(***************************************************************************)
(* Model of src/whisper/transcript.py: the S3-triggered lambda_handler,    *)
(* process_audio (the whisper-cli invoker) and the command-line main.      *)
(*                                                                         *)
(* Text values.  Byte strings (subprocess pipes, S3 bodies) are sequences  *)
(* of integers 0..255; Python str values that the code decodes, trims,     *)
(* filters and JSON-encodes are sequences of Unicode code points.  Paths,  *)
(* object keys and model names are TLA+ strings joined with \o.  An        *)
(* f-string message is the sequence of its parts: [lit |-> ..] for the     *)
(* literal text, [s |-> ..] for an interpolated path or name, [int |-> ..] *)
(* for an interpolated integer and [text |-> ..] for an interpolated str.  *)
(***************************************************************************)
EXTENDS Integers, Sequences, FiniteSets, TLC

(***************************************************************************)
(* bytes.decode('utf-8') (strict): lines 77 and 81.                        *)
(***************************************************************************)
IsCont(b, i) == i <= Len(b) /\ b[i] >= 128 /\ b[i] <= 191

InRange(b, i, lo, hi) == i <= Len(b) /\ b[i] >= lo /\ b[i] <= hi

\* Length of the well-formed UTF-8 sequence starting at b[i], 0 when the
\* bytes there are not well-formed (overlong forms, surrogates, values above
\* U+10FFFF, stray continuation bytes and truncated sequences included).
utf8_seqlen(b, i) ==
    LET b1 == b[i] IN
    CASE b1 < 128 -> 1
      [] b1 >= 194 /\ b1 <= 223 /\ IsCont(b, i + 1) -> 2
      [] b1 = 224 /\ InRange(b, i + 1, 160, 191) /\ IsCont(b, i + 2) -> 3
      [] b1 >= 225 /\ b1 <= 236 /\ IsCont(b, i + 1) /\ IsCont(b, i + 2) -> 3
      [] b1 = 237 /\ InRange(b, i + 1, 128, 159) /\ IsCont(b, i + 2) -> 3
      [] b1 >= 238 /\ b1 <= 239 /\ IsCont(b, i + 1) /\ IsCont(b, i + 2) -> 3
      [] b1 = 240 /\ InRange(b, i + 1, 144, 191) /\ IsCont(b, i + 2)
                  /\ IsCont(b, i + 3) -> 4
      [] b1 >= 241 /\ b1 <= 243 /\ IsCont(b, i + 1) /\ IsCont(b, i + 2)
                  /\ IsCont(b, i + 3) -> 4
      [] b1 = 244 /\ InRange(b, i + 1, 128, 143) /\ IsCont(b, i + 2)
                  /\ IsCont(b, i + 3) -> 4
      [] OTHER -> 0

utf8_codepoint(b, i, n) ==
    CASE n = 1 -> b[i]
      [] n = 2 -> (b[i] - 192) * 64 + (b[i + 1] - 128)
      [] n = 3 -> (b[i] - 224) * 4096 + (b[i + 1] - 128) * 64 + (b[i + 2] - 128)
      [] OTHER -> (b[i] - 240) * 262144 + (b[i + 1] - 128) * 4096
                  + (b[i + 2] - 128) * 64 + (b[i + 3] - 128)

RECURSIVE decode_from(_, _)
decode_from(b, i) ==
    IF i > Len(b) THEN [ok |-> TRUE, str |-> <<>>]
    ELSE LET n == utf8_seqlen(b, i) IN
         IF n = 0 THEN [ok |-> FALSE, str |-> <<>>]
         ELSE LET rest == decode_from(b, i + n) IN
              [ok |-> rest.ok,
               str |-> IF rest.ok THEN <<utf8_codepoint(b, i, n)>> \o rest.str
                       ELSE <<>>]

\* decode(b).ok is FALSE where Python raises UnicodeDecodeError.
decode(b) == decode_from(b, 1)

(***************************************************************************)
(* str.strip() and str.replace(old, new): lines 81-82.                     *)
(***************************************************************************)
\* The code points for which str.isspace() holds; strip() removes these.
isspace(c) ==
    \/ c >= 9 /\ c <= 13
    \/ c >= 28 /\ c <= 32
    \/ c \in {133, 160, 5760, 8232, 8233, 8239, 8287, 12288}
    \/ c >= 8192 /\ c <= 8202

RECURSIVE lstrip(_)
lstrip(s) == IF s # <<>> /\ isspace(Head(s)) THEN lstrip(Tail(s)) ELSE s

RECURSIVE rstrip(_)
rstrip(s) ==
    IF s # <<>> /\ isspace(s[Len(s)]) THEN rstrip(SubSeq(s, 1, Len(s) - 1)) ELSE s

strip(s) == rstrip(lstrip(s))

MatchesAt(s, i, old) ==
    /\ i + Len(old) - 1 <= Len(s)
    /\ \A j \in 1..Len(old) : s[i + j - 1] = old[j]

\* One left-to-right pass over s: each occurrence of old found at the scan
\* position is replaced and the scan resumes after it (old is non-empty).
RECURSIVE replace_from(_, _, _, _)
replace_from(s, i, old, new) ==
    IF i > Len(s) THEN <<>>
    ELSE IF MatchesAt(s, i, old)
         THEN new \o replace_from(s, i + Len(old), old, new)
         ELSE <<s[i]>> \o replace_from(s, i + 1, old, new)

replace(s, old, new) == replace_from(s, 1, old, new)

\* '[BLANK_AUDIO]' (line 82) as code points.
BLANK_AUDIO == <<91, 66, 76, 65, 78, 75, 95, 65, 85, 68, 73, 79, 93>>

Contains(s, sub) == \E i \in 1..(Len(s) + 1) : MatchesAt(s, i, sub)

(***************************************************************************)
(* json.dumps of a str (line 28) and json.loads of the stored document.    *)
(***************************************************************************)
HexDigits == <<48, 49, 50, 51, 52, 53, 54, 55, 56, 57, 97, 98, 99, 100, 101, 102>>

\* '\uXXXX' with four lower-case hex digits.
u_escape(n) ==
    <<92, 117, HexDigits[((n \div 4096) % 16) + 1], HexDigits[((n \div 256) % 16) + 1],
      HexDigits[((n \div 16) % 16) + 1], HexDigits[(n % 16) + 1]>>

\* json.encoder.py_encode_basestring_ascii: everything outside ' '..'~', the
\* quote and the backslash are escaped; astral code points become a
\* surrogate pair.
json_escape(c) ==
    CASE c = 34 -> <<92, 34>>
      [] c = 92 -> <<92, 92>>
      [] c = 10 -> <<92, 110>>
      [] c = 13 -> <<92, 114>>
      [] c = 9 -> <<92, 116>>
      [] c = 8 -> <<92, 98>>
      [] c = 12 -> <<92, 102>>
      [] c >= 32 /\ c <= 126 -> <<c>>
      [] c >= 65536 -> u_escape(55296 + ((c - 65536) \div 1024))
                       \o u_escape(56320 + ((c - 65536) % 1024))
      [] OTHER -> u_escape(c)

RECURSIVE json_escape_all(_)
json_escape_all(s) ==
    IF s = <<>> THEN <<>> ELSE json_escape(Head(s)) \o json_escape_all(Tail(s))

\* json.dumps as it would be without escaping: the text between quotes.
json_dumps_unescaped(s) == <<34>> \o s \o <<34>>

json_dumps(s) == <<34>> \o json_escape_all(s) \o <<34>>

HexValue(c) ==
    CASE c >= 48 /\ c <= 57 -> c - 48
      [] c >= 97 /\ c <= 102 -> c - 87
      [] c >= 65 /\ c <= 70 -> c - 55
      [] OTHER -> -1

IsHex4(d, i) == i + 3 <= Len(d) /\ \A j \in 0..3 : HexValue(d[i + j]) >= 0

Hex4(d, i) ==
    HexValue(d[i]) * 4096 + HexValue(d[i + 1]) * 256 + HexValue(d[i + 2]) * 16
    + HexValue(d[i + 3])

SimpleEscape(c) ==
    CASE c = 34 -> 34
      [] c = 92 -> 92
      [] c = 47 -> 47
      [] c = 98 -> 8
      [] c = 102 -> 12
      [] c = 110 -> 10
      [] c = 114 -> 13
      [] c = 116 -> 9
      [] OTHER -> -1

\* json.decoder.py_scanstring from position i (after the opening quote):
\* the string value up to the closing quote, which must end the document.
RECURSIVE scanstring(_, _)
scanstring(d, i) ==
    IF i > Len(d) THEN [ok |-> FALSE, str |-> <<>>]
    ELSE IF d[i] = 34 THEN [ok |-> i = Len(d), str |-> <<>>]
    ELSE IF d[i] < 32 THEN [ok |-> FALSE, str |-> <<>>]
    ELSE IF d[i] # 92
         THEN LET rest == scanstring(d, i + 1) IN
              [ok |-> rest.ok, str |-> <<d[i]>> \o rest.str]
    ELSE IF i + 1 > Len(d) THEN [ok |-> FALSE, str |-> <<>>]
    ELSE IF d[i + 1] = 117
         THEN IF ~IsHex4(d, i + 2) THEN [ok |-> FALSE, str |-> <<>>]
              ELSE LET hi == Hex4(d, i + 2)
                       paired == /\ hi >= 55296 /\ hi <= 56319
                                 /\ i + 7 <= Len(d)
                                 /\ d[i + 6] = 92 /\ d[i + 7] = 117
                                 /\ IsHex4(d, i + 8)
                                 /\ Hex4(d, i + 8) >= 56320
                                 /\ Hex4(d, i + 8) <= 57343
                       cp == IF paired
                             THEN 65536 + (hi - 55296) * 1024
                                  + (Hex4(d, i + 8) - 56320)
                             ELSE hi
                       rest == scanstring(d, IF paired THEN i + 12 ELSE i + 6)
                   IN  [ok |-> rest.ok, str |-> <<cp>> \o rest.str]
         ELSE IF SimpleEscape(d[i + 1]) < 0 THEN [ok |-> FALSE, str |-> <<>>]
              ELSE LET rest == scanstring(d, i + 2) IN
                   [ok |-> rest.ok, str |-> <<SimpleEscape(d[i + 1])>> \o rest.str]

\* json.loads of a document holding one JSON string.
json_loads(d) ==
    IF d # <<>> /\ d[1] = 34 THEN scanstring(d, 2) ELSE [ok |-> FALSE, str |-> <<>>]

(***************************************************************************)
(* The world the program runs in.                                          *)
(***************************************************************************)
VARIABLES
    caller,         \* the entry point this process runs: "lambda_handler" or "main"
    environ,        \* os.environ: variable name -> value
    fs,             \* local files: path -> identity of the file's content
    s3,             \* the object store: <<bucket, key>> -> object
    pc,             \* position of the running code
    event,          \* lambda_handler's argument
    bucket_name, object_key, result, response,        \* lambda_handler's locals
    argv,           \* sys.argv
    wav_file, model_name, model, env, whisper_cli,    \* process_audio's locals
    full_command, process, output, error, retval,
    raised,         \* the exception in flight, or the one that ended the run
    e,              \* the exception bound by main's except clause
    printed,        \* lines written by print, each the parts of its text
    exit_status,    \* the interpreter's exit status, -1 while running
    trace           \* calls completed in the current run, in order

handlerLocals == <<event, bucket_name, object_key, result, response>>
paLocals == <<wav_file, model_name, model, env, whisper_cli, full_command,
              process, output, error, retval>>
mainLocals == <<argv, e, exit_status>>
vars == <<caller, environ, fs, s3, pc, handlerLocals, paLocals, mainLocals,
          raised, printed, trace>>

\* Line 16.
audio_file == "/tmp/audio.wav"

NoException == [type |-> "", msg |-> <<>>]
NoResponse == [statusCode |-> 0, body |-> <<>>]
NoEnv == [v \in {} |-> ""]
NoProcess == [started |-> FALSE, cmd |-> <<>>, env |-> NoEnv, audio |-> "",
              returncode |-> 0]
NoEvent == [Records |-> <<>>]

Exc(type, msg) == [type |-> type, msg |-> msg]

\* A completed call: who made it, what was called on what, and how it
\* ended ("raise", or what it returned).
Call(by, op, arg, res) == [by |-> by, op |-> op, arg |-> arg, res |-> res]

Bool(b) == IF b THEN "True" ELSE "False"

\* os.environ.get(name, default)
environ_get(environment, name, default) ==
    IF name \in DOMAIN environment THEN environment[name] ELSE default

\* os.path.exists(path)
os_path_exists(path) == path \in DOMAIN fs

\* os.path.join(a, b) for a relative b and an a that does not end in '/'.
os_path_join(a, b) == IF a = "" THEN b ELSE a \o "/" \o b

Update(f, k, v) == [x \in DOMAIN f \cup {k} |-> IF x = k THEN v ELSE f[x]]

AudioObject(id) == [type |-> "audio", id |-> id, body |-> <<>>]
JsonObject(body) == [type |-> "json", id |-> "", body |-> body]

(***************************************************************************)
(* Inputs.                                                                 *)
(***************************************************************************)
S3Event(b, k) ==
    [Records |-> <<[s3 |-> [bucket |-> [name |-> b], object |-> [key |-> k]]]>>]

\* Object-created notifications, and payloads without the fields read on
\* lines 11-12.
Events ==
    {S3Event("b1", "audio/sample.wav"), S3Event("b1", "a.wav"), S3Event("b2", "a.wav")}
    \cup {[Records |-> <<>>],
          [detail |-> <<>>],
          [Records |-> <<[s3 |-> [bucket |-> [name |-> "b1"]]]>>]}

\* The audio objects in the store before the first run.
InitialS3 ==
    [x \in {<<"b1", "audio/sample.wav">>, <<"b1", "a.wav">>, <<"b2", "a.wav">>}
        |-> AudioObject(x[1] \o ":" \o x[2])]

ModelNames == {"tiny", "base"}
ModelPath(name) == "models/ggml-" \o name \o ".bin"

\* Pieces of subprocess output: ' ', 'h', '[BLANK_AUDIO]', '[BLANK_',
\* 'AUDIO]' and the bytes 0xC3 and 0xA9, which are U+00E9 in this order and
\* not valid UTF-8 otherwise.
Chunks ==
    {<<32>>, <<104>>, BLANK_AUDIO, SubSeq(BLANK_AUDIO, 1, 7),
     SubSeq(BLANK_AUDIO, 8, 13), <<195>>, <<169>>}

MaxChunks == 3

RECURSIVE ChunkSeqs(_)
ChunkSeqs(n) ==
    IF n = 0 THEN {<<>>}
    ELSE LET shorter == ChunkSeqs(n - 1) IN
         shorter \cup {c \o s : c \in Chunks, s \in shorter}

\* Standard output of the engine in the command-line runs.
RawOutputs == ChunkSeqs(MaxChunks)

\* 'decode failed'
DecodeFailed == <<100, 101, 99, 111, 100, 101, 32, 102, 97, 105, 108, 101, 100>>

\* Standard error of the engine: empty, a diagnostic, and one that is not
\* valid UTF-8.
RawErrors == {<<>>, DecodeFailed, DecodeFailed \o <<255>>}

\* What a finished child leaves: its exit status and the bytes in each pipe.
Run(rc, out, err) == [returncode |-> rc, stdout |-> out, stderr |-> err]

\* The engine in the command-line runs: any output with exit status 0,
\* with or without diagnostics, and any diagnostics with a failure status,
\* whatever short output came first.
Runs ==
    {Run(0, out, err) : out \in RawOutputs, err \in {<<>>, DecodeFailed}}
    \cup {Run(rc, out, err) : rc \in {1, 127}, out \in ChunkSeqs(1), err \in RawErrors}

\* The engine in the lambda runs: ' hi\n', blank audio between new lines,
\* text with a quote, a backslash and U+00E9, a truncated UTF-8 sequence,
\* and a failure.
HandlerRuns ==
    {Run(0, <<32, 104, 105, 10>>, <<>>),
     Run(0, <<10>> \o BLANK_AUDIO \o <<10>>, DecodeFailed),
     Run(0, <<104, 34, 92, 195, 169>>, <<>>),
     Run(0, <<104, 195>>, <<>>),
     Run(1, <<104>>, DecodeFailed)}

\* 'Processing complete' (line 32).
ProcessingComplete == <<80, 114, 111, 99, 101, 115, 115, 105, 110, 103, 32, 99, 111, 109, 112, 108, 101, 116, 101>>

(***************************************************************************)
(* process_audio, lines 36-84.  It is entered at "pa_model" with wav_file  *)
(* and model_name bound, and leaves at "pa_return" (retval holds the       *)
(* returned str) or "pa_raise" (raised holds the exception).               *)
(***************************************************************************)
\* The missing-model error without the download hint.
ModelNotFoundNoHint(m, name) ==
    Exc("FileNotFoundError", <<[lit |-> "Model file not found: "], [s |-> m]>>)

ModelNotFound(m, name) ==
    Exc("FileNotFoundError",
        <<[lit |-> "Model file not found: "], [s |-> m],
          [lit |-> " \n\nDownload a model with this command:\n\n> "],
          [lit |-> "bash ./models/download-ggml-model.sh "], [s |-> name],
          [lit |-> "\n\n"]>>)

WavNotFound(path) ==
    Exc("FileNotFoundError", <<[lit |-> "WAV file not found: "], [s |-> path]>>)

\* Lines 46-51.
CheckModel ==
    /\ pc = "pa_model"
    /\ LET m == "models/ggml-" \o model_name \o ".bin" IN
       /\ model' = m
       /\ trace' = Append(trace, Call("process_audio", "os.path.exists", m,
                                      Bool(os_path_exists(m))))
       /\ IF ~os_path_exists(m)
          THEN raised' = ModelNotFound(m, model_name) /\ pc' = "pa_raise"
          ELSE raised' = raised /\ pc' = "pa_wav"
    /\ UNCHANGED <<caller, environ, fs, s3, handlerLocals, mainLocals, printed,
                   wav_file, model_name, env, whisper_cli, full_command,
                   process, output, error, retval>>

\* process_audio without lines 53-54.
CheckWavSkipped ==
    /\ pc = "pa_wav"
    /\ pc' = "pa_env"
    /\ UNCHANGED <<caller, environ, fs, s3, handlerLocals, mainLocals, printed,
                   paLocals, raised, trace>>

\* Lines 53-54.
CheckWav ==
    /\ pc = "pa_wav"
    /\ trace' = Append(trace, Call("process_audio", "os.path.exists", wav_file,
                                   Bool(os_path_exists(wav_file))))
    /\ IF ~os_path_exists(wav_file)
       THEN raised' = WavNotFound(wav_file) /\ pc' = "pa_raise"
       ELSE raised' = raised /\ pc' = "pa_env"
    /\ UNCHANGED <<caller, environ, fs, s3, handlerLocals, mainLocals, printed,
                   paLocals>>

\* Lines 60-63 with the assignment env['LD_LIBRARY_PATH'] = bin_path.
ChildEnvReplaced(environment) ==
    Update(environment, "LD_LIBRARY_PATH",
           os_path_join(environ_get(environment, "LAMBDA_TASK_ROOT", "."), "bin"))

\* Lines 60-63: the child's environment.
ChildEnv(environment) ==
    LET bin_path == os_path_join(environ_get(environment, "LAMBDA_TASK_ROOT", "."),
                                 "bin")
        copy == environment
        existing_ld_path == environ_get(copy, "LD_LIBRARY_PATH", "")
    IN  Update(copy, "LD_LIBRARY_PATH",
               IF existing_ld_path # ""
               THEN bin_path \o ":" \o existing_ld_path
               ELSE bin_path)

\* Lines 57-66.
BuildCommand ==
    /\ pc = "pa_env"
    /\ LET cli == os_path_join(os_path_join(
                      environ_get(environ, "LAMBDA_TASK_ROOT", "."), "bin"),
                      "whisper-cli")
       IN  /\ whisper_cli' = cli
           /\ env' = ChildEnv(environ)
           /\ full_command' = <<[s |-> cli], [lit |-> " -m "], [s |-> model],
                                [lit |-> " -f "], [s |-> wav_file],
                                [lit |-> " -nt"]>>
    /\ pc' = "pa_popen"
    /\ UNCHANGED <<caller, environ, fs, s3, handlerLocals, mainLocals, printed,
                   raised, trace, wav_file, model_name, model, process, output,
                   error, retval>>

\* Lines 69-70: the shell is started on full_command with env; the child
\* reads whatever wav_file holds now.
Popen ==
    /\ pc = "pa_popen"
    /\ process' = [started |-> TRUE, cmd |-> full_command, env |-> env,
                   audio |-> IF os_path_exists(wav_file) THEN fs[wav_file] ELSE "",
                   returncode |-> 0]
    /\ trace' = Append(trace, Call("process_audio", "Popen", whisper_cli, "started"))
    /\ pc' = "pa_communicate"
    /\ UNCHANGED <<caller, environ, fs, s3, handlerLocals, mainLocals, printed,
                   raised, wav_file, model_name, model, env, whisper_cli,
                   full_command, output, error, retval>>

\* Line 73: the child ends with some exit status, having written some bytes
\* to each pipe.
Communicate(runs) ==
    /\ pc = "pa_communicate"
    /\ \E run \in runs :
        /\ process' = [process EXCEPT !.returncode = run.returncode]
        /\ output' = run.stdout
        /\ error' = run.stderr
    /\ pc' = "pa_returncode"
    /\ UNCHANGED <<caller, environ, fs, s3, handlerLocals, mainLocals, printed,
                   raised, trace, wav_file, model_name, model, env, whisper_cli,
                   full_command, retval>>

UnicodeDecodeError ==
    Exc("UnicodeDecodeError", <<[lit |-> "'utf-8' codec can't decode byte"]>>)

\* Lines 77-78: the exception built from the exit status and the error pipe.
ProcessError(returncode, err) ==
    IF err # <<>> /\ ~decode(err).ok THEN UnicodeDecodeError
    ELSE Exc("Exception",
             <<[lit |-> "Error processing audio (exit code "],
               [int |-> returncode], [lit |-> "): "],
               IF err # <<>> THEN [text |-> decode(err).str]
               ELSE [lit |-> "Unknown error"]>>)

\* Lines 76-78.
CheckReturncode ==
    /\ pc = "pa_returncode"
    /\ IF process.returncode # 0
       THEN raised' = ProcessError(process.returncode, error) /\ pc' = "pa_raise"
       ELSE raised' = raised /\ pc' = "pa_decode"
    /\ UNCHANGED <<caller, environ, fs, s3, handlerLocals, mainLocals, printed,
                   trace, paLocals>>

\* Lines 81-82 on a decoded str.
Clean(decoded) ==
    LET decoded_str == strip(decoded)
        processed_str == strip(replace(decoded_str, BLANK_AUDIO, <<>>))
    IN  processed_str

\* Lines 81-84.
DecodeOutput ==
    /\ pc = "pa_decode"
    /\ IF decode(output).ok
       THEN /\ retval' = Clean(decode(output).str)
            /\ raised' = raised
            /\ pc' = "pa_return"
       ELSE /\ retval' = retval
            /\ raised' = UnicodeDecodeError
            /\ pc' = "pa_raise"
    /\ UNCHANGED <<caller, environ, fs, s3, handlerLocals, mainLocals, printed,
                   trace, wav_file, model_name, model, env, whisper_cli,
                   full_command, process, output, error>>

\* A call process_audio(w, m): fresh locals, control at line 46.
EnterProcessAudio(w, m) ==
    /\ wav_file' = w
    /\ model_name' = m
    /\ model' = ""
    /\ env' = NoEnv
    /\ whisper_cli' = ""
    /\ full_command' = <<>>
    /\ process' = NoProcess
    /\ output' = <<>>
    /\ error' = <<>>
    /\ retval' = <<>>
    /\ pc' = "pa_model"

(***************************************************************************)
(* lambda_handler, lines 9-33.                                             *)
(***************************************************************************)
HasKey(r, k) == k \in DOMAIN r

\* event['Records'][0]['s3']['bucket']['name'] and ...['object']['key']
\* evaluate without KeyError or IndexError.
LookupOk(ev) ==
    /\ HasKey(ev, "Records")
    /\ Len(ev.Records) >= 1
    /\ HasKey(ev.Records[1], "s3")
    /\ HasKey(ev.Records[1].s3, "bucket")
    /\ HasKey(ev.Records[1].s3.bucket, "name")
    /\ HasKey(ev.Records[1].s3, "object")
    /\ HasKey(ev.Records[1].s3.object, "key")

LookupError(ev) ==
    IF HasKey(ev, "Records") /\ Len(ev.Records) = 0
    THEN Exc("IndexError", <<[lit |-> "list index out of range"]>>)
    ELSE Exc("KeyError", <<[lit |-> "key"]>>)

\* The runtime calls lambda_handler(event, context); an earlier run in the
\* same sandbox has ended, and the files it left are still there.
Invoke ==
    /\ caller = "lambda_handler"
    /\ pc \in {"idle", "done", "failed"}
    /\ \E ev \in Events : event' = ev
    /\ bucket_name' = ""
    /\ object_key' = ""
    /\ result' = <<>>
    /\ response' = NoResponse
    /\ raised' = NoException
    /\ printed' = <<>>
    /\ trace' = <<>>
    /\ pc' = "h_lookup"
    /\ UNCHANGED <<caller, environ, fs, s3, mainLocals, paLocals>>

\* Lines 10-13.
Lookup ==
    /\ pc = "h_lookup"
    /\ IF LookupOk(event)
       THEN /\ bucket_name' = event.Records[1].s3.bucket.name
            /\ object_key' = event.Records[1].s3.object.key
            /\ printed' = <<<<[event |-> event]>>,
                            <<[lit |-> "Processing file "],
                              [s |-> event.Records[1].s3.object.key],
                              [lit |-> " from bucket "],
                              [s |-> event.Records[1].s3.bucket.name]>>>>
            /\ raised' = raised
            /\ pc' = "h_download"
       ELSE /\ UNCHANGED <<bucket_name, object_key>>
            /\ printed' = <<<<[event |-> event]>>>>
            /\ raised' = LookupError(event)
            /\ pc' = "failed"
    /\ trace' = Append(trace, Call("lambda_handler", "lookup", "",
                                   IF LookupOk(event) THEN "ok" ELSE "raise"))
    /\ UNCHANGED <<caller, environ, fs, s3, event, result, response, mainLocals,
                   paLocals>>

\* What s3.download_file can do: write the object to the path, raise, or
\* return having written nothing (the case line 20 guards against).
DownloadOutcomes(b, k) ==
    (IF <<b, k>> \in DOMAIN s3 THEN {"written"} ELSE {}) \cup {"raise", "nothing"}

\* Lines 16-17.
Download ==
    /\ pc = "h_download"
    /\ \E outcome \in DownloadOutcomes(bucket_name, object_key) :
        /\ fs' = IF outcome = "written"
                 THEN Update(fs, audio_file, s3[<<bucket_name, object_key>>].id)
                 ELSE fs
        /\ raised' = IF outcome = "raise"
                     THEN Exc("ClientError", <<[lit |-> "download_file"]>>)
                     ELSE raised
        /\ pc' = IF outcome = "raise" THEN "failed" ELSE "h_exists"
        /\ trace' = Append(trace, Call("lambda_handler", "download_file",
                                       object_key, outcome))
    /\ UNCHANGED <<caller, environ, s3, handlerLocals, mainLocals, paLocals,
                   printed>>

\* Lines 20-21.
CheckDownloaded ==
    /\ pc = "h_exists"
    /\ trace' = Append(trace, Call("lambda_handler", "os.path.exists", audio_file,
                                   Bool(os_path_exists(audio_file))))
    /\ IF ~os_path_exists(audio_file)
       THEN raised' = WavNotFound(audio_file) /\ pc' = "failed"
       ELSE raised' = raised /\ pc' = "h_call"
    /\ UNCHANGED <<caller, environ, fs, s3, handlerLocals, mainLocals, paLocals,
                   printed>>

\* Line 24, the call.
CallProcessAudio ==
    /\ pc = "h_call"
    /\ EnterProcessAudio(audio_file, "tiny")
    /\ UNCHANGED <<caller, environ, fs, s3, handlerLocals, mainLocals, raised,
                   printed, trace>>

\* Line 24, the assignment of the returned value.
BindResult ==
    /\ caller = "lambda_handler"
    /\ pc = "pa_return"
    /\ result' = retval
    /\ trace' = Append(trace, Call("lambda_handler", "process_audio", wav_file, "ok"))
    /\ pc' = "h_put"
    /\ UNCHANGED <<caller, environ, fs, s3, event, bucket_name, object_key,
                   response, mainLocals, paLocals, raised, printed>>

\* Line 24 as it would be inside a try/except that logs and carries on with
\* an empty result.
PropagateSwallowed ==
    /\ caller = "lambda_handler"
    /\ pc = "pa_raise"
    /\ trace' = Append(trace, Call("lambda_handler", "process_audio", wav_file, "raise"))
    /\ pc' = "h_put"
    /\ UNCHANGED <<caller, environ, fs, s3, handlerLocals, mainLocals, paLocals,
                   raised, printed>>

\* Line 24 when process_audio raises: nothing in lambda_handler catches it.
Propagate ==
    /\ caller = "lambda_handler"
    /\ pc = "pa_raise"
    /\ trace' = Append(trace, Call("lambda_handler", "process_audio", wav_file, "raise"))
    /\ pc' = "failed"
    /\ UNCHANGED <<caller, environ, fs, s3, handlerLocals, mainLocals, paLocals,
                   raised, printed>>

\* Line 27.
ResultKey(key) == "processed/" \o key \o ".json"

\* A store that appends to the object already at the key.
PutObjectAppend(store, b, k, body) ==
    Update(store, <<b, k>>,
           JsonObject(IF <<b, k>> \in DOMAIN store THEN store[<<b, k>>].body \o body
                      ELSE body))

\* s3.put_object(Bucket, Key, Body) when the store accepts it: the object at
\* the key is Body, whatever was there.
PutObject(store, b, k, body) == Update(store, <<b, k>>, JsonObject(body))

\* Lines 27-28.  json.dumps output is ASCII, so the uploaded bytes are its
\* code points.
Put ==
    /\ pc = "h_put"
    /\ \E ok \in BOOLEAN :
        /\ s3' = IF ok
                 THEN PutObject(s3, bucket_name, ResultKey(object_key),
                                json_dumps(result))
                 ELSE s3
        /\ raised' = IF ok THEN raised
                     ELSE Exc("ClientError", <<[lit |-> "put_object"]>>)
        /\ pc' = IF ok THEN "h_return" ELSE "failed"
        /\ trace' = Append(trace, Call("lambda_handler", "put_object",
                                       ResultKey(object_key),
                                       IF ok THEN "ok" ELSE "raise"))
    /\ UNCHANGED <<caller, environ, fs, handlerLocals, mainLocals, paLocals,
                   printed>>

\* Lines 30-33.
Return ==
    /\ pc = "h_return"
    /\ response' = [statusCode |-> 200, body |-> json_dumps(ProcessingComplete)]
    /\ trace' = Append(trace, Call("lambda_handler", "return", "", "ok"))
    /\ pc' = "done"
    /\ UNCHANGED <<caller, environ, fs, s3, event, bucket_name, object_key,
                   result, mainLocals, paLocals, raised, printed>>

(***************************************************************************)
(* main, lines 87-101.                                                     *)
(***************************************************************************)
\* An except clause for FileNotFoundError alone.
IsFileNotFoundError(type) == type = "FileNotFoundError"

\* Line 94: the exception classes `except Exception` catches.
IsException(type) ==
    type \in {"Exception", "FileNotFoundError", "UnicodeDecodeError",
              "KeyError", "IndexError", "ClientError"}

\* Lines 88-92 and 96-97.  sys.argv[0] is argv[1] here.
Main ==
    /\ pc = "m_start"
    /\ IF Len(argv) >= 2
       THEN /\ EnterProcessAudio(argv[2], IF Len(argv) = 3 THEN argv[3] ELSE "tiny")
            /\ printed' = printed
       ELSE /\ printed' = Append(printed,
                <<[lit |-> "Usage: python whisper_processor.py <wav_file> [<model_name>]"]>>)
            /\ pc' = "m_end"
            /\ UNCHANGED paLocals
    /\ UNCHANGED <<caller, environ, fs, s3, handlerLocals, mainLocals, raised,
                   trace>>

\* Lines 92-93.
PrintResult ==
    /\ caller = "main"
    /\ pc = "pa_return"
    /\ printed' = Append(printed, <<[text |-> retval]>>)
    /\ trace' = Append(trace, Call("main", "process_audio", wav_file, "ok"))
    /\ pc' = "m_end"
    /\ UNCHANGED <<caller, environ, fs, s3, handlerLocals, mainLocals, paLocals,
                   raised>>

\* Lines 94-95.  An exception the clause does not match leaves main.
Except ==
    /\ caller = "main"
    /\ pc = "pa_raise"
    /\ trace' = Append(trace, Call("main", "process_audio", wav_file, "raise"))
    /\ IF IsException(raised.type)
       THEN /\ e' = raised
            /\ raised' = NoException
            /\ printed' = Append(printed, <<[lit |-> "Error: "]>> \o raised.msg)
       ELSE UNCHANGED <<e, raised, printed>>
    /\ pc' = "m_end"
    /\ UNCHANGED <<caller, environ, fs, s3, handlerLocals, paLocals, argv,
                   exit_status>>

\* Lines 100-101: main has ended; the interpreter exits with 0, or with 1
\* and a traceback when an exception left main.
Exit ==
    /\ pc = "m_end"
    /\ exit_status' = IF raised = NoException THEN 0 ELSE 1
    /\ pc' = "exit"
    /\ UNCHANGED <<caller, environ, fs, s3, handlerLocals, paLocals, argv, e,
                   raised, printed, trace>>

(***************************************************************************)
(* Specifications.                                                         *)
(***************************************************************************)
\* The Lambda runtime sets LAMBDA_TASK_ROOT and may set LD_LIBRARY_PATH.
LambdaEnvirons ==
    {[LAMBDA_TASK_ROOT |-> "/var/task", HOME |-> "/home"],
     [LAMBDA_TASK_ROOT |-> "/var/task", HOME |-> "/home",
      LD_LIBRARY_PATH |-> "/var/lang/lib:/lib64"]}

\* Environments of a command-line run.
Environs ==
    LambdaEnvirons
    \cup {[HOME |-> "/home"],
          [HOME |-> "/home", LD_LIBRARY_PATH |-> ""],
          [HOME |-> "/home", LD_LIBRARY_PATH |-> "/opt/lib"],
          [LAMBDA_TASK_ROOT |-> "/var/task", HOME |-> "/home",
           LD_LIBRARY_PATH |-> ""]}

\* The files present: some of the models, and perhaps a recording.
FileSystems(models, wavs) ==
    {[p \in {ModelPath(n) : n \in ms} \cup ws |-> IF p \in ws THEN "local:" \o p ELSE "model"] :
        ms \in SUBSET models, ws \in SUBSET wavs}

InitLocals ==
    /\ event = NoEvent
    /\ bucket_name = ""
    /\ object_key = ""
    /\ result = <<>>
    /\ response = NoResponse
    /\ wav_file = ""
    /\ model_name = ""
    /\ model = ""
    /\ env = NoEnv
    /\ whisper_cli = ""
    /\ full_command = <<>>
    /\ process = NoProcess
    /\ output = <<>>
    /\ error = <<>>
    /\ retval = <<>>
    /\ raised = NoException
    /\ e = NoException
    /\ printed = <<>>
    /\ exit_status = -1
    /\ trace = <<>>

\* A fresh Lambda sandbox: the deployment package with or without the
\* tiny model, no scratch file.
Init ==
    /\ caller = "lambda_handler"
    /\ environ \in LambdaEnvirons
    /\ fs \in FileSystems({"tiny"}, {})
    /\ s3 = InitialS3
    /\ argv = <<>>
    /\ pc = "idle"
    /\ InitLocals

ProcessAudio(runs) ==
    \/ CheckModel
    \/ CheckWav
    \/ BuildCommand
    \/ Popen
    \/ Communicate(runs)
    \/ CheckReturncode
    \/ DecodeOutput

Next ==
    \/ Invoke
    \/ Lookup
    \/ Download
    \/ CheckDownloaded
    \/ CallProcessAudio
    \/ ProcessAudio(HandlerRuns)
    \/ BindResult
    \/ Propagate
    \/ Put
    \/ Return

Spec == Init /\ [][Next]_vars

Argvs ==
    {<<"transcript.py">>,
     <<"transcript.py", "in.wav">>,
     <<"transcript.py", "in.wav", "tiny">>,
     <<"transcript.py", "in.wav", "base">>,
     <<"transcript.py", "in.wav", "base", "extra">>}

\* One command-line run.
InitMain ==
    /\ caller = "main"
    /\ environ \in Environs
    /\ fs \in FileSystems(ModelNames, {"in.wav"})
    /\ s3 = InitialS3
    /\ argv \in Argvs
    /\ pc = "m_start"
    /\ InitLocals

NextMain ==
    \/ Main
    \/ ProcessAudio(Runs)
    \/ PrintResult
    \/ Except
    \/ Exit

SpecMain == InitMain /\ [][NextMain]_vars

(***************************************************************************)
(* Properties of lambda_handler, checked under Spec.                       *)
(***************************************************************************)
IsHandlerCall(c) == c.by = "lambda_handler"

\* The calls lambda_handler itself has completed in the current run.
HandlerTrace == SelectSeq(trace, IsHandlerCall)

Stages == <<"lookup", "download_file", "os.path.exists", "process_audio",
            "put_object", "return">>

\* A stage failed when its call raised, or when the existence check
\* returned False (line 21 then raises).
StageFailed(c) == c.res \in {"raise", "False"}

\* C1: in every run of lambda_handler the stages happen in the order lookup,
\* download, existence check, process_audio, put_object, return; a stage
\* is reached only when every stage before it succeeded, a failed stage is
\* the last one of its run and leaves the run failed with the error in
\* flight and no response, the statusCode 200 response exists exactly
\* when the run went through all the stages, put_object included, and a
\* subprocess is started only after the download and the existence check
\* succeeded.
C1_StagesInOrder ==
    LET h == HandlerTrace IN
    /\ Len(h) <= Len(Stages)
    /\ \A i \in 1..Len(h) : h[i].op = Stages[i]
    /\ \A i \in 1..(Len(h) - 1) : ~StageFailed(h[i])
    /\ (h # <<>> /\ StageFailed(h[Len(h)])) => pc = "failed"
    /\ pc = "failed" => /\ h # <<>>
                        /\ StageFailed(h[Len(h)])
                        /\ raised # NoException
                        /\ response = NoResponse
    /\ response.statusCode = 200 <=> pc = "done"
    /\ pc = "done" => Len(h) = Len(Stages) /\ raised = NoException
    /\ (\E i \in 1..Len(trace) : trace[i].op = "Popen") =>
           Len(h) >= 3 /\ ~StageFailed(h[3])

\* A run that got as far as put_object and failed there.
C1_Witness ==
    /\ pc = "failed"
    /\ Len(HandlerTrace) = 5
    /\ HandlerTrace[5].op = "put_object"
    /\ raised.type = "ClientError"

EventBucket == event.Records[1].s3.bucket.name
EventKey == event.Records[1].s3.object.key

DownloadedNothing ==
    \E i \in 1..Len(trace) :
        trace[i].op = "download_file" /\ trace[i].res = "nothing"

\* C5: in every run, in a fresh sandbox or after earlier runs, once the
\* download has returned without writing the file the handler goes no
\* further than the existence check: it fails there with the file-not-found
\* error, starts no subprocess and publishes nothing.
C5_SilentDownloadStops ==
    DownloadedNothing =>
        /\ pc \in {"h_exists", "failed"}
        /\ pc = "failed" => raised = WavNotFound(audio_file)
        /\ \A i \in 1..Len(trace) : trace[i].op \notin {"Popen", "put_object"}

\* C8: a successful put_object leaves at processed/<key>.json exactly the
\* JSON document of the transcript: nothing of the object that was there
\* before remains, no other object changes, and when the store already
\* held this document at this key the store is the same as before.
C8_PublishOverwrites ==
    [][(pc = "h_put" /\ pc' = "h_return") =>
        LET at == <<bucket_name, "processed/" \o object_key \o ".json">> IN
        /\ s3'[at] = JsonObject(json_dumps(result))
        /\ DOMAIN s3' = DOMAIN s3 \cup {at}
        /\ \A x \in DOMAIN s3 \ {at} : s3'[x] = s3[x]
        /\ (at \in DOMAIN s3 /\ s3[at] = JsonObject(json_dumps(result)))
               => s3' = s3]_vars

\* About to publish a transcript to a key where an earlier run left the
\* same document.
C8_Witness ==
    /\ pc = "h_put"
    /\ <<bucket_name, ResultKey(object_key)>> \in DOMAIN s3
    /\ s3[<<bucket_name, ResultKey(object_key)>>].body = json_dumps(result)
    /\ result # <<>>

(***************************************************************************)
(* Properties of process_audio and main, checked under SpecMain.           *)
(***************************************************************************)
Spawned == \E i \in 1..Len(trace) : trace[i].op = "Popen"

NoEdgeSpace(s) == s = <<>> \/ (~isspace(s[1]) /\ ~isspace(s[Len(s)]))

\* C2: whenever process_audio returns, the returned str has no leading or
\* trailing whitespace and '[BLANK_AUDIO]' does not occur in it.
C2_TranscriptClean ==
    pc = "pa_return" => NoEdgeSpace(retval) /\ ~Contains(retval, BLANK_AUDIO)

\* The part of C2 about whitespace alone.
C2_TranscriptTrimmed == pc = "pa_return" => NoEdgeSpace(retval)

\* C4 as stated: when the audio path does not exist, process_audio fails
\* with "WAV file not found: <path>" and no subprocess is started.
C4_MissingAudioAlwaysReported ==
    (pc = "pa_raise" /\ ~os_path_exists(wav_file)) =>
        raised = WavNotFound(wav_file) /\ ~Spawned

\* C4, amended: when the audio path does not exist, no subprocess is ever
\* started and process_audio never gets past its checks; when the model
\* file exists, it fails with "WAV file not found: <path>".
C4_MissingAudioReported ==
    (wav_file # "" /\ ~os_path_exists(wav_file)) =>
        /\ ~Spawned
        /\ ~process.started
        /\ pc \in {"pa_model", "pa_wav", "pa_raise", "m_end", "exit"}
        /\ (pc = "pa_raise" /\ os_path_exists("models/ggml-" \o model_name \o ".bin"))
              => raised = [type |-> "FileNotFoundError",
                           msg |-> <<[lit |-> "WAV file not found: "],
                                     [s |-> wav_file]>>]

\* The model is there, the recording is not, and process_audio has raised.
C4_Witness ==
    /\ pc = "pa_raise"
    /\ ~os_path_exists(wav_file)
    /\ os_path_exists(model)
    /\ raised.type = "FileNotFoundError"

HasPart(msg, part) == \E i \in 1..Len(msg) : msg[i] = part

\* C6: when the child's exit status is not 0, process_audio does not return;
\* it raises Exception with a message that holds the exit status and the
\* decoded standard error, or 'Unknown error' when standard error is empty.
C6_ExecutionErrorReported ==
    (process.started /\ process.returncode # 0) =>
        /\ pc # "pa_return"
        /\ pc = "pa_raise" =>
            /\ raised.type = "Exception"
            /\ HasPart(raised.msg, [int |-> process.returncode])
            /\ IF error = <<>>
               THEN HasPart(raised.msg, [lit |-> "Unknown error"])
               ELSE /\ decode(error).ok
                    /\ HasPart(raised.msg, [text |-> decode(error).str])

\* C7: when models/ggml-<name>.bin does not exist, process_audio raises
\* FileNotFoundError with a message that holds the command
\* 'bash ./models/download-ggml-model.sh <name>' for that name, having
\* looked at nothing but the model path: the audio path is not checked and
\* no subprocess is started.
C7_MissingModelHint ==
    (model_name # "" /\ pc # "pa_model"
     /\ ~os_path_exists("models/ggml-" \o model_name \o ".bin")) =>
        /\ pc \in {"pa_raise", "m_end", "exit"}
        /\ LET err == IF pc = "pa_raise" THEN raised ELSE e IN
           /\ err.type = "FileNotFoundError"
           /\ \E i \in 1..(Len(err.msg) - 1) :
                /\ err.msg[i] = [lit |-> "bash ./models/download-ggml-model.sh "]
                /\ err.msg[i + 1] = [s |-> model_name]
        /\ \A i \in 1..Len(trace) :
             trace[i].by = "process_audio" =>
                 /\ trace[i].op = "os.path.exists"
                 /\ trace[i].arg = "models/ggml-" \o model_name \o ".bin"

\* The base model is asked for and missing, the recording is missing too.
C7_Witness ==
    /\ pc = "pa_raise"
    /\ model_name = "base"
    /\ ~os_path_exists(model)
    /\ ~os_path_exists(wav_file)

\* C9: a run of main with a file path and at most a model name calls
\* process_audio with that path and that name, "tiny" when none is given,
\* and ends with exit status 0 whether process_audio returned or raised:
\* the returned str is printed, and an exception is printed as 'Error: '
\* followed by its message and goes no further.
C9_MainAlwaysExitsZero ==
    (caller = "main" /\ pc = "exit" /\ Len(argv) \in {2, 3}) =>
        /\ exit_status = 0
        /\ raised = NoException
        /\ wav_file = argv[2]
        /\ model_name = (IF Len(argv) = 3 THEN argv[3] ELSE "tiny")
        /\ Len(printed) = 1
        /\ LET last == trace[Len(trace)] IN
           /\ last.by = "main"
           /\ IF last.res = "raise"
              THEN /\ e # NoException
                   /\ printed[1] = <<[lit |-> "Error: "]>> \o e.msg
              ELSE /\ e = NoException
                   /\ printed[1] = <<[text |-> retval]>>

\* main has ended after the engine failed.
C9_Witness ==
    /\ pc = "exit"
    /\ e.type = "Exception"
    /\ process.returncode = 127
    /\ Len(argv) = 3

LD == "LD_LIBRARY_PATH"

\* The directories the executable can be in.
BinDirs == {"./bin", "/var/task/bin"}

\* C10: the environment given to the subprocess has the variables of
\* os.environ with their values, except LD_LIBRARY_PATH, which is the
\* directory of the executable, followed by ':' and the value os.environ
\* has for it when that value is not empty; os.environ never changes.
C10_ChildEnvironment ==
    /\ [](process.started =>
            /\ DOMAIN process.env = DOMAIN environ \cup {LD}
            /\ \A v \in DOMAIN environ \ {LD} : process.env[v] = environ[v]
            /\ \E d \in BinDirs :
                /\ process.cmd[1] = [s |-> d \o "/whisper-cli"]
                /\ process.env[LD] = IF LD \in DOMAIN environ /\ environ[LD] # ""
                                      THEN d \o ":" \o environ[LD]
                                      ELSE d)
    /\ [][environ' = environ]_vars

\* A subprocess started from an environment that had a library path.
C10_Witness ==
    /\ process.started
    /\ LD \in DOMAIN environ
    /\ environ[LD] = "/opt/lib"
    /\ "LAMBDA_TASK_ROOT" \notin DOMAIN environ

====
